---------------------------- MODULE Spec2Model ----------------------------
(***************************************************************************)
(* The API gateway of the gratitude app (src/unnamed/part_000): the        *)
(* bounding utilities, the normalizers, the two LLM invokers, the          *)
(* availability guard, the nine AI route handlers and the entries facade,  *)
(* one request at a time (Spec, SpecEntries, SpecGateway), the utilities   *)
(* applied to inputs (SpecFn) and several requests in flight               *)
(* (SpecConcurrent); and the entry list of the client                      *)
(* (src/client/src/MainComponent.js, SpecClient).                          *)
(*                                                                         *)
(* JavaScript values are tagged records:                                   *)
(*   [t |-> "undef"], [t |-> "null"], [t |-> "bool", b |-> BOOLEAN],       *)
(*   [t |-> "num", n |-> Int], [t |-> "str", s |-> sequence of characters],*)
(*   [t |-> "arr", items |-> sequence of values],                          *)
(*   [t |-> "obj", fields |-> function from keys to values].               *)
(* A character is a one-character string.  In the text of an LLM reply a   *)
(* JSON lexeme (null, 1, "x", "reflections") is one element of the         *)
(* sequence, and so is a fixed string literal of the source (Lit).         *)
(***************************************************************************)
EXTENDS Integers, Sequences, FiniteSets, TLC

\* ------------------------------------------------------------------ bounds
\* Longest string enumerated character by character.
MaxLen == 3
\* Longest client-supplied collection enumerated element by element.
MaxItems == 2
\* Largest bound n / limit handed to sanitize, clipCollection and the
\* normalizers when they are checked as pure functions.
MaxBound == 3
\* Longest reply text enumerated lexeme by lexeme.
MaxReplyLen == 1
\* Most requests in flight at a time.
MaxInFlight == 2
\* Most getEntries calls of the client in one run.
MaxGetEntries == 3

\* --------------------------------------------------------- program constants
EntryTextMax == 500
MoodMax == 50
MoodNoteMax == 240
SanitizeDefaultMax == 800
GatewayFallbackStatus == 502
\* The largest limit handed to clipCollection and the largest cap handed to
\* sanitize anywhere in the handlers.
LargestClipLimit == 40
LargestTextCap == 1800
\* GET /entries/all: the cap and the default of the limit.
EntriesLimitCap == 200
EntriesLimitDefault == 50
\* The client's useState(25) of entryLimit.
InitialEntryLimit == 25

\* --------------------------------------------------------------- JS values
Undef == [t |-> "undef"]
JNull == [t |-> "null"]
JBool(b) == [t |-> "bool", b |-> b]
JNum(n) == [t |-> "num", n |-> n]
NaN == [t |-> "nan"]
JStr(s) == [t |-> "str", s |-> s]
JArr(items) == [t |-> "arr", items |-> items]
JObj(fields) == [t |-> "obj", fields |-> fields]
EmptyObj == JObj(<<>>)

\* x === null || x === undefined
IsNullish(v) == v.t \in {"undef", "null"}

\* ToBoolean: undefined, null, false, 0, NaN and "" are falsy.
Truthy(v) ==
  CASE v.t \in {"undef", "null", "nan"} -> FALSE
    [] v.t = "bool" -> v.b
    [] v.t = "num" -> v.n /= 0
    [] v.t = "str" -> v.s /= <<>>
    [] OTHER -> TRUE

\* a || b
JsOr(a, b) == IF Truthy(a) THEN a ELSE b

\* v?.k : undefined for null and undefined, and for a value without the
\* property k (a primitive or an array has none of the keys used here).
OptGet(v, k) ==
  IF v.t = "obj" /\ k \in DOMAIN v.fields THEN v.fields[k] ELSE Undef

\* v.k throws a TypeError when v is null or undefined.
GetThrows(v) == IsNullish(v)

\* Array.isArray
IsArray(v) == v.t = "arr"

Min(a, b) == IF a < b THEN a ELSE b
Max(a, b) == IF a > b THEN a ELSE b

\* seq.slice(0, end), for a string's characters or an array's items: a
\* negative end counts from the end of the sequence.
SliceFromStart(seq, end) ==
  LET n == Len(seq)
      e == IF end < 0 THEN Max(n + end, 0) ELSE Min(end, n)
  IN  SubSeq(seq, 1, e)

\* ------------------------------------------------------------------ strings
Whitespace == {" ", "\t", "\n"}

RECURSIVE TrimStart(_)
TrimStart(s) ==
  IF s /= <<>> /\ Head(s) \in Whitespace THEN TrimStart(Tail(s)) ELSE s

RECURSIVE TrimEnd(_)
TrimEnd(s) ==
  IF s /= <<>> /\ s[Len(s)] \in Whitespace
    THEN TrimEnd(SubSeq(s, 1, Len(s) - 1))
    ELSE s

\* String.prototype.trim
Trim(s) == TrimEnd(TrimStart(s))

Digit(d) == <<"0", "1", "2", "3", "4", "5", "6", "7", "8", "9">>[d + 1]

RECURSIVE NatToString(_)
NatToString(n) ==
  IF n < 10 THEN <<Digit(n)>> ELSE NatToString(n \div 10) \o <<Digit(n % 10)>>

ObjectObjectText ==
  <<"[", "o", "b", "j", "e", "c", "t", " ", "O", "b", "j", "e", "c", "t", "]">>

\* String(value): the characters of the value's string form.
RECURSIVE ToStringChars(_)
RECURSIVE JoinItems(_)
JoinItems(items) ==
  IF items = <<>> THEN <<>>
  ELSE (IF IsNullish(Head(items)) THEN <<>> ELSE ToStringChars(Head(items)))
       \o (IF Len(items) > 1 THEN <<",">> \o JoinItems(Tail(items)) ELSE <<>>)
ToStringChars(v) ==
  CASE v.t = "str" -> v.s
    [] v.t = "num" ->
         IF v.n < 0 THEN <<"-">> \o NatToString(-v.n) ELSE NatToString(v.n)
    [] v.t = "bool" ->
         IF v.b THEN <<"t", "r", "u", "e">> ELSE <<"f", "a", "l", "s", "e">>
    [] v.t = "null" -> <<"n", "u", "l", "l">>
    [] v.t = "nan" -> <<"N", "a", "N">>
    [] v.t = "undef" -> <<"u", "n", "d", "e", "f", "i", "n", "e", "d">>
    [] v.t = "arr" -> JoinItems(v.items)
    [] OTHER -> ObjectObjectText

\* The value of a decimal digit character.
DigitValue(c) == CHOOSE d \in 0..9 : Digit(d) = c

\* The longest prefix of s made of decimal digits.
RECURSIVE LeadingDigits(_)
LeadingDigits(s) ==
  IF s /= <<>> /\ Head(s) \in {Digit(d) : d \in 0..9}
    THEN <<Head(s)>> \o LeadingDigits(Tail(s))
    ELSE <<>>

RECURSIVE DigitsValue(_)
DigitsValue(ds) ==
  IF ds = <<>> THEN 0
  ELSE 10 * DigitsValue(SubSeq(ds, 1, Len(ds) - 1)) + DigitValue(ds[Len(ds)])

\* parseInt(text, 10): leading whitespace is skipped, then an optional sign
\* and the longest run of digits are read; NaN when there is no digit.
parseInt(chars) ==
  LET s == TrimStart(chars)
      signed == s /= <<>> /\ Head(s) \in {"-", "+"}
      ds == LeadingDigits(IF signed THEN Tail(s) ELSE s)
  IN  IF ds = <<>> THEN NaN
      ELSE IF signed /\ Head(s) = "-" THEN JNum(-DigitsValue(ds))
      ELSE JNum(DigitsValue(ds))

\* ------------------------------------------------------- bounding utilities
\* const sanitize = (value, max = 800) => ...
sanitize(value, max) ==
  IF IsNullish(value) THEN JStr(<<>>)
  ELSE JStr(SliceFromStart(Trim(ToStringChars(value)), max))

\* Faulty variant of clipCollection: slice(0, limit + 1), an off-by-one.
clipCollectionOffByOne(input, limit) ==
  IF ~IsArray(input) THEN JArr(<<>>)
  ELSE JArr(SliceFromStart(input.items, limit + 1))

\* Faulty variant of clipCollection: slice(-limit), the last elements.
clipCollectionFromEnd(input, limit) ==
  IF ~IsArray(input) THEN JArr(<<>>)
  ELSE JArr(SubSeq(input.items,
                   Max(Len(input.items) - limit, 0) + 1, Len(input.items)))

\* const clipCollection = (input, limit = 20) => ...
clipCollection(input, limit) ==
  IF ~IsArray(input) THEN JArr(<<>>)
  ELSE JArr(SliceFromStart(input.items, limit))


\* ---------------------------------------------------------------- JSON text
\* The lexemes a reply text is made of.  A string lexeme stands for the
\* characters between its quotes.
StringLexemes == {"\"x\"", "\"reflections\""}

StringOfLexeme(a) ==
  IF a = "\"x\"" THEN <<"x">>
  ELSE <<"r", "e", "f", "l", "e", "c", "t", "i", "o", "n", "s">>

KeyOfLexeme(a) == IF a = "\"x\"" THEN "x" ELSE "reflections"

ParseFail == [ok |-> FALSE, v |-> Undef, rest |-> <<>>]
ParseOk(v, rest) == [ok |-> TRUE, v |-> v, rest |-> rest]

\* JSON.parse's grammar over lexemes: value, array elements, object members.
RECURSIVE ParseValue(_)
RECURSIVE ParseElements(_, _)
RECURSIVE ParseMembers(_, _)
ParseValue(toks) ==
  IF toks = <<>> THEN ParseFail
  ELSE LET h == Head(toks)
           r == Tail(toks)
       IN  CASE h = "null" -> ParseOk(JNull, r)
             [] h = "1" -> ParseOk(JNum(1), r)
             [] h \in StringLexemes -> ParseOk(JStr(StringOfLexeme(h)), r)
             [] h = "[" ->
                  IF r /= <<>> /\ Head(r) = "]"
                    THEN ParseOk(JArr(<<>>), Tail(r))
                    ELSE ParseElements(r, <<>>)
             [] h = "{" ->
                  IF r /= <<>> /\ Head(r) = "}"
                    THEN ParseOk(EmptyObj, Tail(r))
                    ELSE ParseMembers(r, <<>>)
             [] OTHER -> ParseFail
ParseElements(toks, acc) ==
  LET e == ParseValue(toks)
  IN  IF ~e.ok \/ e.rest = <<>> THEN ParseFail
      ELSE IF Head(e.rest) = "]"
        THEN ParseOk(JArr(Append(acc, e.v)), Tail(e.rest))
      ELSE IF Head(e.rest) = ","
        THEN ParseElements(Tail(e.rest), Append(acc, e.v))
      ELSE ParseFail
ParseMembers(toks, acc) ==
  IF Len(toks) < 2 \/ Head(toks) \notin StringLexemes \/ toks[2] /= ":"
    THEN ParseFail
  ELSE LET e == ParseValue(SubSeq(toks, 3, Len(toks)))
           \* a repeated key keeps its last value
           acc2 == [k \in DOMAIN acc \cup {KeyOfLexeme(Head(toks))} |->
                      IF k = KeyOfLexeme(Head(toks)) THEN e.v ELSE acc[k]]
       IN  IF ~e.ok \/ e.rest = <<>> THEN ParseFail
           ELSE IF Head(e.rest) = "}" THEN ParseOk(JObj(acc2), Tail(e.rest))
           ELSE IF Head(e.rest) = "," THEN ParseMembers(Tail(e.rest), acc2)
           ELSE ParseFail

\* JSON.parse(text): ok is FALSE where JSON.parse throws a SyntaxError.
\* Whitespace between lexemes is skipped; the whole text must be one value.
JsonParse(text) ==
  LET toks == SelectSeq(text, LAMBDA a : a \notin Whitespace)
      r == ParseValue(toks)
  IN  IF r.ok /\ r.rest = <<>> THEN r ELSE ParseFail

\* Faulty variant of safeJsonParse: the fallback whatever the text.
safeJsonParseAlwaysFallback(raw, fallback) == fallback

\* Faulty variant of safeJsonParse: the catch returns nothing instead of the
\* fallback.
safeJsonParseNoFallback(raw, fallback) ==
  LET r == JsonParse(ToStringChars(raw))
  IN  IF r.ok THEN r.v ELSE Undef

\* const safeJsonParse = (raw, fallback = {}) => ...
safeJsonParse(raw, fallback) ==
  LET r == JsonParse(ToStringChars(raw))
  IN  IF r.ok THEN r.v ELSE fallback

\* -------------------------------------------------------------- normalizers
\* one element of normalizeEntries' map
normalizeEntry(item) ==
  JObj([k \in {"text", "created_at"} |->
    IF k = "text"
      THEN sanitize(JsOr(OptGet(item, "text"), JStr(<<>>)), EntryTextMax)
      ELSE JsOr(JsOr(OptGet(item, "created_at"), OptGet(item, "createdAt")),
                JNull)])

\* const normalizeEntries = (entries, limit = 20) => ...
normalizeEntries(entries, limit) ==
  LET c == clipCollection(entries, limit).items
  IN  JArr([i \in 1..Len(c) |-> normalizeEntry(c[i])])

\* one element of normalizeMoods' map
normalizeMood(item) ==
  JObj([k \in {"mood", "note", "created_at"} |->
    CASE k = "mood" ->
           sanitize(JsOr(OptGet(item, "mood"), JStr(<<>>)), MoodMax)
      [] k = "note" ->
           sanitize(JsOr(OptGet(item, "note"), JStr(<<>>)), MoodNoteMax)
      [] OTHER -> JsOr(OptGet(item, "created_at"), JNull)])

\* const normalizeMoods = (moods, limit = 20) => ...
normalizeMoods(moods, limit) ==
  LET c == clipCollection(moods, limit).items
  IN  JArr([i \in 1..Len(c) |-> normalizeMood(c[i])])


\* ------------------------------------------------------------------- state
VARIABLES
  openAiClient,  \* TRUE iff openAiClient is not null (OPENAI_API_KEY was set)
  pc,            \* "idle", "awaiting" (suspended at the LLM call), "done",
                 \* "threw" (an exception left the handler)
  route,         \* the AI route of the request being handled, or "none"
  body,          \* req.body
  llmArgs,       \* the argument of chat.completions.create, once called
  llmCalls,      \* number of chat.completions.create calls of this request
  llmResult,     \* what the LLM call resolved or rejected with
  rpcArgs,       \* the entries service call of this request, once made
  res,           \* the response: times sent, status code, body
  answeredBy,    \* which statement sent the response
  fn,            \* pure-function checks: the function applied
  fnArg,         \*   its input value
  fnLimit,       \*   its bound / limit
  fnFallback,    \*   its fallback (safeJsonParse)
  fnOut,         \*   its result
  fnAgain,       \*   the result of applying it to its own result
  requests,      \* concurrent requests: for each one in flight its position,
                 \*   route, body, upstream outcome and response
  mounted,       \* the client: MainComponent's effects have run
  entryLimit,    \*   state entryLimit
  clientEntries, \*   state entries, the rows displayed
  entriesLoading, \*  state entriesLoading
  entriesError,  \*   state entriesError
  getEntriesCalls \*  the getEntries calls in the order issued: the limit
                 \*   asked for, pending / resolved / rejected, the data

handlerVars ==
  <<pc, route, body, llmArgs, llmCalls, llmResult, rpcArgs, res, answeredBy>>
fnVars == <<fn, fnArg, fnLimit, fnFallback, fnOut, fnAgain>>
clientVars ==
  <<mounted, entryLimit, clientEntries, entriesLoading, entriesError,
    getEntriesCalls>>
vars == <<openAiClient, handlerVars, fnVars, requests, clientVars>>

\* A string literal of the source.
Lit(text) == JStr(<<text>>)

NoArgs == [called |-> FALSE]
NoResult == [kind |-> "none"]
NoResponse == [sent |-> 0, status |-> 0, body |-> Undef]

\* What the synchronous part of a handler (up to its first await) does:
\* send a response, call the LLM, or throw.
Responds(status, resBody, by) ==
  [kind |-> "respond", status |-> status, body |-> resBody, by |-> by,
   args |-> NoArgs]
CallsLlm(args) ==
  [kind |-> "call", status |-> 0, body |-> Undef, by |-> "none", args |-> args]
Throws ==
  [kind |-> "throw", status |-> 0, body |-> Undef, by |-> "none",
   args |-> NoArgs]

\* ------------------------------------------------------ availability guard
NotConfiguredMessage ==
  Lit("OPENAI_API_KEY is not configured on the API gateway")

\* Faulty variant of ensureOpenAi: the guard lets every request through.
ensureOpenAiSkipped == TRUE

\* const ensureOpenAi = (res) => ... : its return value
ensureOpenAi == openAiClient

\* ... and the response it sends when it returns false
ensureOpenAiResponse ==
  Responds(503, JObj([ok |-> JBool(FALSE), error |-> NotConfiguredMessage]),
           "guard")

\* ----------------------------------------------------------------- invokers
\* Faulty variant of the catch block: statusCode is read before status.
catchBlockStatusCodeFirst(err, fallback) ==
  Responds(JsOr(JsOr(OptGet(err, "statusCode"), OptGet(err, "status")),
                JNum(GatewayFallbackStatus)).n,
           JObj([error |-> JsOr(OptGet(err, "message"), Lit(fallback))]),
           "catch")

\* The catch block every handler ends with:
\*   const status = err?.status || err?.statusCode || 502;
\*   res.status(status).send({ error: err.message || <fallback> });
catchBlock(err, fallback) ==
  Responds(JsOr(JsOr(OptGet(err, "status"), OptGet(err, "statusCode")),
                JNum(GatewayFallbackStatus)).n,
           JObj([error |-> JsOr(OptGet(err, "message"), Lit(fallback))]),
           "catch")

\* async function runChat(messages, options = {}) up to its await: the
\* Error it throws when the client is missing, or the create() argument
\* { model, temperature: 0.4, ...options, messages }.  Temperatures are in
\* tenths.
runChat(messages, options) ==
  IF ~openAiClient
    THEN [threw |-> TRUE, err |-> JObj([message |-> NotConfiguredMessage])]
    ELSE [threw |-> FALSE,
          args |-> [messages |-> messages, called |-> TRUE] @@ options
                   @@ [model |-> "OPENAI_MODEL", temperature |-> 4]]

\* JSON.stringify(userPayload), kept as the value it serializes.
JsonText(payload) == [t |-> "str", json |-> payload]

\* runJsonChat(systemPrompt, userPayload, options = {}) up to its await.
runJsonChat(systemPrompt, userPayload, options) ==
  runChat(
    << [role |-> "system", content |-> Lit(systemPrompt)],
       [role |-> "user",
        content |-> IF userPayload.t = "str" THEN userPayload
                    ELSE JsonText(userPayload)] >>,
    [response_format |-> "json_object",
     max_tokens |->
       IF "maxTokens" \in DOMAIN options /\ options.maxTokens /= 0
         THEN options.maxTokens ELSE 400,
     temperature |->
       IF "temperature" \in DOMAIN options THEN options.temperature ELSE 4])

\* response.choices?.[0]?.message?.content
ContentOf(response) == response.content

\* runJsonChat after its await: { json, usage }.
runJsonChatResult(response) ==
  [json |-> safeJsonParse(JsOr(ContentOf(response), JStr(<<"{", "}">>)),
                          EmptyObj),
   usage |-> JsOr(response.usage, JNull)]

\* try { await runChat / runJsonChat ... } catch: a throw before the await
\* lands in the handler's catch block.
TryCall(r, fallback) ==
  IF r.threw THEN catchBlock(r.err, fallback) ELSE CallsLlm(r.args)


\* The fallback message of each route's catch block.
catchFallback(r) ==
  CASE r = "insights" -> "Unable to fetch AI insights"
    [] r = "prompt" -> "Unable to fetch AI prompt"
    [] r = "summary" -> "Unable to fetch AI summary"
    [] r = "goals" -> "Unable to fetch goal reflections"
    [] r = "anomaly" -> "Unable to run anomaly detection"
    [] r = "pattern" -> "Unable to map patterns"
    [] r = "transcript" -> "Unable to transcribe note"
    [] r = "partner" -> "Unable to craft partner update"
    [] OTHER -> "Unable to continue the mentor chat"

\* ------------------------------------------- handlers, up to the first await
\* app.post("/ai/insights", ...)
insightsBegin(b) ==
  IF ~ensureOpenAi THEN ensureOpenAiResponse
  ELSE
    LET latestEntry == sanitize(OptGet(b, "entry"), SanitizeDefaultMax)
        latestMood == JsOr(OptGet(b, "mood"), JNull)
        stats == JsOr(OptGet(b, "stats"), JNull)
        g == OptGet(b, "goals")
        goals == IF IsArray(g)
                   THEN JArr([i \in 1..Len(g.items) |->
                                sanitize(g.items[i], 120)])
                   ELSE JArr(<<>>)
    IN  IF ~Truthy(latestEntry) /\ ~Truthy(latestMood) /\ ~Truthy(stats)
          THEN Responds(400,
                 JObj([error |->
                   Lit("Provide at least an entry, mood, or stats snapshot.")]),
                 "validation")
          ELSE TryCall(
                 runJsonChat(
                   "You are an empathetic AI mentor. Analyse the data and output JSON with keys primary_emotion, summary, reflection, action_item, risk_level (low|medium|high), and partner_share (short supportive sentence).",
                   JObj([entry |-> latestEntry, mood |-> latestMood,
                         stats |-> stats, goals |-> goals]),
                   [maxTokens |-> 350]),
                 catchFallback("insights"))

\* app.post("/ai/prompt", ...)
promptBegin(b) ==
  IF ~ensureOpenAi THEN ensureOpenAiResponse
  ELSE
    LET focus == sanitize(OptGet(b, "focus"), 200)
        mood == JsOr(sanitize(OptGet(b, "mood"), 40), Lit("curious"))
        entry == sanitize(OptGet(b, "entry"), 400)
    IN  TryCall(
          runChat(
            << [role |-> "system",
                content |-> Lit("Create a single journaling prompt tailored to the user's current mood and context. Keep it under 220 characters.")],
               [role |-> "user",
                content |-> JStr(<<"Mood: ">> \o mood.s
                  \o <<"\nFocus request: ">>
                  \o JsOr(focus, Lit("balance and gratitude")).s
                  \o <<"\nMost recent entry: ">>
                  \o JsOr(entry, Lit("none")).s)] >>,
            [max_tokens |-> 100, temperature |-> 8]),
          catchFallback("prompt"))

\* app.post("/ai/summary", ...)
summaryBegin(b) ==
  IF ~ensureOpenAi THEN ensureOpenAiResponse
  ELSE
    LET entries == normalizeEntries(OptGet(b, "entries"), 20)
        moods == normalizeMoods(OptGet(b, "moods"), 20)
        stats == JsOr(OptGet(b, "stats"), JNull)
    IN  IF Len(entries.items) = 0 /\ Len(moods.items) = 0 /\ ~Truthy(stats)
          THEN Responds(400,
                 JObj([error |->
                   Lit("Provide entries, moods, or stats for the summary.")]),
                 "validation")
          ELSE TryCall(
                 runJsonChat(
                   "Create an uplifting weekly executive summary of the user's emotional wellbeing. Respond with JSON keys: overview, wins (array), growth_edges (array), focus_theme, encouragement.",
                   JObj([entries |-> entries, moods |-> moods,
                         stats |-> stats]),
                   [maxTokens |-> 420]),
                 catchFallback("summary"))

\* Faulty variant of /ai/goals: the sanitized goals are not filtered, so a
\* blank goal counts as a goal.
goalsBeginNoFilter(b) ==
  IF ~ensureOpenAi THEN ensureOpenAiResponse
  ELSE
    LET c == clipCollection(OptGet(b, "goals"), 10).items
        goals == JArr([i \in 1..Len(c) |-> sanitize(c[i], 160)])
        entry == sanitize(OptGet(b, "entry"), 400)
    IN  IF Len(goals.items) = 0
          THEN Responds(400, JObj([error |-> Lit("Provide at least one goal.")]),
                        "validation")
          ELSE TryCall(
                 runJsonChat(
                   "Relate the gratitude reflection to the user's life goals. Return JSON { reflections: [{ goal, insight, micro_action }] }.",
                   JObj([goals |-> goals, entry |-> entry]),
                   [maxTokens |-> 400]),
                 catchFallback("goals"))

\* app.post("/ai/goals", ...)
goalsBegin(b) ==
  IF ~ensureOpenAi THEN ensureOpenAiResponse
  ELSE
    LET c == clipCollection(OptGet(b, "goals"), 10).items
        mapped == [i \in 1..Len(c) |-> sanitize(c[i], 160)]
        goals == JArr(SelectSeq(mapped, Truthy))
        entry == sanitize(OptGet(b, "entry"), 400)
    IN  IF Len(goals.items) = 0
          THEN Responds(400, JObj([error |-> Lit("Provide at least one goal.")]),
                        "validation")
          ELSE TryCall(
                 runJsonChat(
                   "Relate the gratitude reflection to the user's life goals. Return JSON { reflections: [{ goal, insight, micro_action }] }.",
                   JObj([goals |-> goals, entry |-> entry]),
                   [maxTokens |-> 400]),
                 catchFallback("goals"))

\* app.post("/ai/anomaly", ...)
anomalyBegin(b) ==
  IF ~ensureOpenAi THEN ensureOpenAiResponse
  ELSE
    LET entries == normalizeEntries(OptGet(b, "entries"), 30)
        moods == normalizeMoods(OptGet(b, "moods"), 30)
    IN  IF Len(entries.items) = 0 /\ Len(moods.items) = 0
          THEN Responds(400,
                 JObj([error |->
                   Lit("Provide recent entries or moods for analysis.")]),
                 "validation")
          ELSE TryCall(
                 runJsonChat(
                   "Detect emotional anomalies or mental health risks. Return JSON { risk_level, alerts: [string], recommendation }.",
                   JObj([entries |-> entries, moods |-> moods]),
                   [maxTokens |-> 320]),
                 catchFallback("anomaly"))

\* app.post("/ai/pattern", ...)
patternBegin(b) ==
  IF ~ensureOpenAi THEN ensureOpenAiResponse
  ELSE
    LET entries == normalizeEntries(OptGet(b, "entries"), 40)
    IN  IF Len(entries.items) = 0
          THEN Responds(400,
                 JObj([error |-> Lit("Provide entries to map life patterns.")]),
                 "validation")
          ELSE TryCall(
                 runJsonChat(
                   "Analyse gratitude entries to build a life pattern map. Return JSON { themes: [string], triggers: [string], supportive_habits: [string] }.",
                   JObj([entries |-> entries]),
                   [maxTokens |-> 380]),
                 catchFallback("pattern"))

\* app.post("/ai/transcript", ...)
transcriptBegin(b) ==
  IF ~ensureOpenAi THEN ensureOpenAiResponse
  ELSE
    LET note == JsOr(JsOr(sanitize(OptGet(b, "voice_note"), 1800),
                          sanitize(OptGet(b, "voice_note_text"), 1800)),
                     sanitize(OptGet(b, "note"), 1800))
    IN  IF ~Truthy(note)
          THEN Responds(400,
                 JObj([error |->
                   Lit("Provide a voice note snippet to transcribe.")]),
                 "validation")
          ELSE TryCall(
                 runJsonChat(
                   "You clean up raw voice note text into a polished transcript. Return JSON { transcript, emotions: [string], highlights: [string], action_item }.",
                   note,
                   [maxTokens |-> 320]),
                 catchFallback("transcript"))

\* app.post("/ai/partner", ...)
partnerBegin(b) ==
  IF ~ensureOpenAi THEN ensureOpenAiResponse
  ELSE
    LET insights == JsOr(OptGet(b, "insights"), JNull)
        summary == JsOr(OptGet(b, "summary"), JNull)
        audience == sanitize(JsOr(OptGet(b, "audience"), Lit("partner")), 40)
    IN  IF ~Truthy(insights) /\ ~Truthy(summary)
          THEN Responds(400,
                 JObj([error |->
                   Lit("Provide insights or a summary to craft a partner update.")]),
                 "validation")
          ELSE TryCall(
                 runJsonChat(
                   "Create a short, caring update that shares emotional status with a loved one without revealing raw journal text. Return JSON { message }.",
                   JObj([insights |-> insights, summary |-> summary,
                         audience |-> audience]),
                   [maxTokens |-> 220]),
                 catchFallback("partner"))

\* One step of history.forEach in /ai/chat: the message pushed for msg, if
\* any.  msg.role throws for a null msg; there the handler has already thrown.
chatMessageOf(msg) ==
  LET role == IF OptGet(msg, "role") = Lit("assistant")
                THEN "assistant" ELSE "user"
      content == sanitize(JsOr(JsOr(OptGet(msg, "content"), OptGet(msg, "text")),
                               JStr(<<>>)), 1200)
  IN  IF Truthy(content) THEN << [role |-> role, content |-> content] >>
      ELSE <<>>

\* Faulty variant of chatHistoryMessages: the newest message first.
RECURSIVE chatHistoryMessagesReversed(_)
chatHistoryMessagesReversed(history) ==
  IF history = <<>> THEN <<>>
  ELSE chatHistoryMessagesReversed(Tail(history))
       \o chatMessageOf(Head(history))

RECURSIVE chatHistoryMessages(_)
chatHistoryMessages(history) ==
  IF history = <<>> THEN <<>>
  ELSE chatMessageOf(Head(history)) \o chatHistoryMessages(Tail(history))

\* app.post("/ai/chat", ...): the message list is built before the try.
chatBegin(b) ==
  IF ~ensureOpenAi THEN ensureOpenAiResponse
  ELSE
    LET conv == OptGet(b, "conversation")
        history == IF IsArray(conv) THEN conv.items ELSE <<>>
        topic == JsOr(sanitize(OptGet(b, "topic"), 120),
                      Lit("overall wellbeing"))
        system == [role |-> "system",
                   content |-> Lit("You are a therapist-style AI mentor. Be empathetic, concise, and focus on actionable grounding techniques. Keep replies under 180 words.")]
        opener == [role |-> "user",
                   content |-> JStr(<<"I'd like to talk about ">> \o topic.s
                                    \o <<".">>)]
    IN  IF \E i \in 1..Len(history) : GetThrows(history[i])
          THEN Throws
          ELSE TryCall(
                 runChat(
                   <<system>> \o (IF Len(history) /= 0
                                    THEN chatHistoryMessages(history)
                                    ELSE <<opener>>),
                   [max_tokens |-> 360, temperature |-> 7]),
                 catchFallback("chat"))


\* --------------------------------------------- handlers, after the LLM call
\* res.send({ <key>: json, usage }) of insights, summary, anomaly, pattern,
\* transcript and partner.
envelopeKey(r) ==
  CASE r = "insights" -> "insights"
    [] r = "summary" -> "summary"
    [] r = "anomaly" -> "anomaly"
    [] r = "pattern" -> "pattern"
    [] r = "transcript" -> "transcript"
    [] OTHER -> "share"

jsonEnd(r, response) ==
  LET out == runJsonChatResult(response)
  IN  Responds(200,
               JObj([k \in {envelopeKey(r), "usage"} |->
                       IF k = "usage" THEN out.usage ELSE out.json]),
               "success")

\* /ai/goals: res.send({ reflections: json.reflections || [], usage }); a
\* null json makes json.reflections throw inside the try.
goalsEnd(response) ==
  LET out == runJsonChatResult(response)
  IN  IF GetThrows(out.json)
        THEN catchBlock(
               JObj([message |->
                 Lit("Cannot read properties of null (reading 'reflections')")]),
               catchFallback("goals"))
        ELSE Responds(200,
               JObj([reflections |->
                       JsOr(OptGet(out.json, "reflections"), JArr(<<>>)),
                     usage |-> out.usage]),
               "success")

\* response.choices?.[0]?.message?.content?.trim()
TrimmedContent(response) ==
  IF IsNullish(ContentOf(response)) THEN Undef
  ELSE JStr(Trim(ContentOf(response).s))

\* Faulty variant of promptEnd: the content is not trimmed.
promptEndUntrimmed(response) ==
  Responds(200,
    JObj([prompt |->
            JsOr(ContentOf(response),
                 Lit("Take a mindful breath and describe one highlight from today.")),
          usage |-> JsOr(response.usage, JNull)]),
    "success")

\* /ai/prompt: res.send({ prompt: prompt || <default>, usage })
promptEnd(response) ==
  Responds(200,
    JObj([prompt |->
            JsOr(TrimmedContent(response),
                 Lit("Take a mindful breath and describe one highlight from today.")),
          usage |-> JsOr(response.usage, JNull)]),
    "success")

\* /ai/chat: res.send({ reply: reply || <default>, usage })
chatEnd(response) ==
  Responds(200,
    JObj([reply |->
            JsOr(TrimmedContent(response),
                 Lit("Take a calming breath and notice one thing you appreciate in this moment.")),
          usage |-> JsOr(response.usage, JNull)]),
    "success")

JsonRoutes ==
  {"insights", "summary", "goals", "anomaly", "pattern", "transcript",
   "partner"}

handlerEnd(r, response) ==
  CASE r = "goals" -> goalsEnd(response)
    [] r = "prompt" -> promptEnd(response)
    [] r = "chat" -> chatEnd(response)
    [] OTHER -> jsonEnd(r, response)


\* ------------------------------------------------------------------- inputs
\* A JSON object holding the fields of f that are given (not Undef).
Body(f) == JObj([k \in {x \in DOMAIN f : f[x].t /= "undef"} |-> f[k]])

Blank == JStr(<<" ">>)
TextA == JStr(<<"a">>)
StatsObj == JObj([total_entries |-> JNum(3)])
Stamp1 == Lit("2024-05-01T08:00:00Z")
Stamp2 == Lit("2024-05-02T09:30:00Z")

\* Client-supplied collections of entries or moods: absent, not a
\* sequence, empty, holding a null, holding records.
CollectionInputs ==
  {Undef, TextA, JArr(<<>>), JArr(<<JNull>>),
   JArr(<<JObj([text |-> JStr(<<" ", "a">>), createdAt |-> Stamp2])>>),
   JArr(<<JObj([mood |-> TextA, note |-> Blank, created_at |-> Stamp1]),
          JObj([text |-> JNum(0)])>>)}

\* A collection with more elements than any clip limit, and a text longer
\* than any cap.
LongGoals == JArr([i \in 1..(LargestClipLimit + 1) |-> TextA])
LongText == JStr([i \in 1..(LargestTextCap + 1) |-> "a"])

InsightsBodies ==
  {Undef} \cup
  {Body([entry |-> e, mood |-> m, stats |-> st, goals |-> g]) :
     e \in {Undef, Blank, TextA, JNum(0)},
     m \in {Undef, JNull, TextA, LongText},
     st \in {Undef, JNum(0), StatsObj},
     g \in {Undef, TextA, JArr(<<JStr(<<" ", "a">>), JNull>>), LongGoals}}

PromptBodies ==
  {Undef} \cup
  {Body([focus |-> f, mood |-> m, entry |-> e]) :
     f \in {Undef, Blank, TextA}, m \in {Undef, JNull, TextA},
     e \in {Undef, TextA}}

SummaryBodies ==
  {Undef} \cup
  {Body([entries |-> e, moods |-> m, stats |-> st]) :
     e \in CollectionInputs, m \in CollectionInputs, st \in {Undef, StatsObj}}

GoalsBodies ==
  {Undef} \cup
  {Body([goals |-> g, entry |-> e]) :
     g \in {Undef, JNull, TextA, JArr(<<>>), JArr(<<Blank>>),
            JArr(<<JNull, JStr(<<>>)>>), JArr(<<TextA>>), JArr(<<JNum(0)>>),
            JArr(<<Blank, JStr(<<" ", "a">>)>>)},
     e \in {Undef, TextA}}

AnomalyBodies ==
  {Undef} \cup
  {Body([entries |-> e, moods |-> m]) :
     e \in CollectionInputs, m \in CollectionInputs}

PatternBodies ==
  {Undef} \cup {Body([entries |-> e]) : e \in CollectionInputs}

TranscriptBodies ==
  {Undef} \cup
  {Body([voice_note |-> a, voice_note_text |-> b, note |-> c]) :
     a \in {Undef, Blank, TextA, JNum(0)},
     b \in {Undef, Blank, TextA},
     c \in {Undef, JNull, TextA}}

PartnerBodies ==
  {Undef} \cup
  {Body([insights |-> i, summary |-> su, audience |-> a]) :
     i \in {Undef, JNull, JStr(<<>>), EmptyObj},
     su \in {Undef, JNum(0), JObj([overview |-> TextA])},
     a \in {Undef, Blank, TextA}}

UserMsg == JObj([role |-> Lit("user"), content |-> TextA])
AssistantMsg == JObj([role |-> Lit("assistant"), content |-> JStr(<<"b">>)])
LongConversation == JArr([i \in 1..(LargestClipLimit + 1) |-> UserMsg])
ChatBodies ==
  {Undef} \cup
  {Body([conversation |-> c, topic |-> t]) :
     c \in {Undef, TextA, JArr(<<>>), JArr(<<JNull>>), JArr(<<UserMsg>>),
            JArr(<<JObj([role |-> Lit("system"), text |-> TextA])>>),
            JArr(<<JObj([role |-> Lit("user"), content |-> Blank])>>),
            JArr(<<AssistantMsg, UserMsg>>), JArr(<<UserMsg, JNull>>),
            JArr(<<JNum(1)>>), LongConversation},
     t \in {Undef, Blank, TextA}}

\* All texts of at most n elements over the alphabet A.
RECURSIVE TextsUpTo(_, _)
TextsUpTo(A, n) ==
  IF n = 0 THEN {<<>>}
  ELSE LET shorter == TextsUpTo(A, n - 1)
       IN  shorter \cup {Append(t, a) : t \in shorter, a \in A}

ReplyLexemes ==
  {" ", "a", "{", "}", "[", "]", ":", ",", "null", "1", "\"x\"",
   "\"reflections\""}

\* The reply texts of the LLM: every short text, and longer ones that are
\* valid JSON of each kind, invalid JSON, and plain prose.
ReplyTexts ==
  TextsUpTo(ReplyLexemes, MaxReplyLen) \cup
  { <<"{", "}">>, <<"[", "]">>, <<"[", "1", ",", "null", "]">>,
    <<" ", "a", " ">>, <<"a", " ", "a">>, <<"{", "\"x\"", "}">>,
    <<"{", "\"x\"", ":", "1", "}">>, <<"{", "\"x\"", ":", "1", ",", "}">>,
    <<"{", "\"reflections\"", ":", "[", "\"x\"", "]", "}">>,
    <<"{", "\"reflections\"", ":", "null", ",", " ", "\"x\"", ":", "\"x\"", "}">>,
    <<"[", "1">>, <<"1", "1">> }

\* What chat.completions.create resolves with: the first choice's content
\* (Undef: no choice or no content) and the usage.
LlmResponses ==
  [content : {Undef, JNull} \cup {JStr(t) : t \in ReplyTexts},
   usage : {Undef, JObj([total_tokens |-> JNum(42)])}]

\* What it rejects with: an error carrying status, statusCode and message,
\* each of them or not.  The status codes are HTTP status codes.
LlmErrors ==
  {Body([status |-> st, statusCode |-> sc, message |-> m]) :
     st \in {Undef, JNum(400), JNum(429)},
     sc \in {Undef, JNum(503)},
     m \in {Undef, JStr(<<>>), Lit("Rate limit reached")}}


\* ------------------------------------------------------------------ actions
\* The requests that can be in flight together, and one that has not arrived.
Slots == 1..MaxInFlight

IdleRequest ==
  [pc |-> "idle", route |-> "none", body |-> Undef, configured |-> FALSE,
   result |-> NoResult, res |-> NoResponse]

NoRequests == [i \in Slots |-> IdleRequest]

\* MainComponent's useState initial values, before its effects run.
ClientInit ==
  /\ mounted = FALSE
  /\ entryLimit = InitialEntryLimit
  /\ clientEntries = JArr(<<>>)
  /\ entriesLoading = FALSE
  /\ entriesError = JNull
  /\ getEntriesCalls = <<>>

FnIdle ==
  /\ fn = "none" /\ fnArg = Undef /\ fnLimit = 0 /\ fnFallback = Undef
  /\ fnOut = Undef /\ fnAgain = Undef

HandlerIdle ==
  /\ pc = "idle" /\ route = "none" /\ body = Undef
  /\ llmArgs = NoArgs /\ llmCalls = 0 /\ llmResult = NoResult
  /\ rpcArgs = NoArgs
  /\ res = NoResponse /\ answeredBy = "none"

\* Faulty variant of Send: the response is sent, and sent again.
SendTwice(out) ==
  /\ res' = [sent |-> res.sent + 2, status |-> out.status, body |-> out.body]
  /\ answeredBy' = out.by

\* res.status(status).send(resBody)
Send(out) ==
  /\ res' = [sent |-> res.sent + 1, status |-> out.status, body |-> out.body]
  /\ answeredBy' = out.by

\* A request arrives at route r with body b and the handler runs to its
\* first await, its return or its throw.
Begin(r, b, out) ==
  /\ route' = r
  /\ body' = b
  /\ llmResult' = llmResult
  /\ rpcArgs' = rpcArgs
  /\ CASE out.kind = "respond" ->
            /\ Send(out)
            /\ pc' = "done"
            /\ UNCHANGED <<llmArgs, llmCalls>>
       [] out.kind = "call" ->
            /\ llmArgs' = out.args
            /\ llmCalls' = llmCalls + 1
            /\ pc' = "awaiting"
            /\ UNCHANGED <<res, answeredBy>>
       [] OTHER ->
            /\ pc' = "threw"
            /\ UNCHANGED <<llmArgs, llmCalls, res, answeredBy>>
  /\ UNCHANGED <<openAiClient, requests, clientVars, fnVars>>

\* app.post("/ai/insights", ...) is called with a request.
PostAiInsights ==
  /\ pc = "idle"
  /\ \E b \in InsightsBodies : Begin("insights", b, insightsBegin(b))

\* app.post("/ai/prompt", ...) is called with a request.
PostAiPrompt ==
  /\ pc = "idle"
  /\ \E b \in PromptBodies : Begin("prompt", b, promptBegin(b))

\* app.post("/ai/summary", ...) is called with a request.
PostAiSummary ==
  /\ pc = "idle"
  /\ \E b \in SummaryBodies : Begin("summary", b, summaryBegin(b))

\* app.post("/ai/goals", ...) is called with a request.
PostAiGoals ==
  /\ pc = "idle"
  /\ \E b \in GoalsBodies : Begin("goals", b, goalsBegin(b))

\* app.post("/ai/anomaly", ...) is called with a request.
PostAiAnomaly ==
  /\ pc = "idle"
  /\ \E b \in AnomalyBodies : Begin("anomaly", b, anomalyBegin(b))

\* app.post("/ai/pattern", ...) is called with a request.
PostAiPattern ==
  /\ pc = "idle"
  /\ \E b \in PatternBodies : Begin("pattern", b, patternBegin(b))

\* app.post("/ai/transcript", ...) is called with a request.
PostAiTranscript ==
  /\ pc = "idle"
  /\ \E b \in TranscriptBodies : Begin("transcript", b, transcriptBegin(b))

\* app.post("/ai/partner", ...) is called with a request.
PostAiPartner ==
  /\ pc = "idle"
  /\ \E b \in PartnerBodies : Begin("partner", b, partnerBegin(b))

\* app.post("/ai/chat", ...) is called with a request.
PostAiChat ==
  /\ pc = "idle"
  /\ \E b \in ChatBodies : Begin("chat", b, chatBegin(b))

\* The awaited LLM call resolves and the handler runs to its end.
LlmResolves ==
  /\ pc = "awaiting" /\ llmArgs.called
  /\ \E response \in LlmResponses :
       /\ llmResult' =
            [kind |-> "resolved", response |-> response,
             json |-> IF route \in JsonRoutes
                        THEN runJsonChatResult(response).json ELSE Undef]
       /\ Send(handlerEnd(route, response))
  /\ pc' = "done"
  /\ UNCHANGED <<openAiClient, requests, clientVars, route, body, llmArgs, llmCalls, rpcArgs, fnVars>>

\* The awaited LLM call rejects and the handler's catch block runs.
LlmRejects ==
  /\ pc = "awaiting" /\ llmArgs.called
  /\ \E err \in LlmErrors :
       /\ llmResult' = [kind |-> "rejected", err |-> err]
       /\ Send(catchBlock(err, catchFallback(route)))
  /\ pc' = "done"
  /\ UNCHANGED <<openAiClient, requests, clientVars, route, body, llmArgs, llmCalls, rpcArgs, fnVars>>

\* The request is over; nothing of it is kept for the next one.
NextRequest ==
  /\ pc \in {"done", "threw"}
  /\ pc' = "idle" /\ route' = "none" /\ body' = Undef
  /\ llmArgs' = NoArgs /\ llmCalls' = 0 /\ llmResult' = NoResult
  /\ rpcArgs' = NoArgs
  /\ res' = NoResponse /\ answeredBy' = "none"
  /\ UNCHANGED <<openAiClient, requests, clientVars, fnVars>>

Init ==
  /\ openAiClient \in BOOLEAN
  /\ HandlerIdle
  /\ FnIdle
  /\ requests = NoRequests
  /\ ClientInit

Next ==
  \/ PostAiInsights
  \/ PostAiPrompt
  \/ PostAiSummary
  \/ PostAiGoals
  \/ PostAiAnomaly
  \/ PostAiPattern
  \/ PostAiTranscript
  \/ PostAiPartner
  \/ PostAiChat
  \/ LlmResolves
  \/ LlmRejects
  \/ NextRequest

Spec == Init /\ [][Next]_vars


\* ---------------------------------------------------- the entries facade
\* Faulty variant of entriesAllLimit: no Math.min(200, ...).
entriesAllLimitUncapped(query) ==
  LET raw == JsOr(OptGet(query, "limit"), JStr(<<"5", "0">>))
  IN  JsOr(parseInt(ToStringChars(raw)), JNum(EntriesLimitDefault)).n

\* GET /entries/all:
\* Math.min(200, parseInt(req.query.limit || "50", 10) || 50)
entriesAllLimit(query) ==
  LET raw == JsOr(OptGet(query, "limit"), JStr(<<"5", "0">>))
  IN  Min(EntriesLimitCap,
          JsOr(parseInt(ToStringChars(raw)), JNum(EntriesLimitDefault)).n)

\* The callback of ListEntries: 500 with the service's message, or the rows.
listEntriesCallback(err, result) ==
  IF Truthy(err)
    THEN Responds(500, JObj([error |-> OptGet(err, "message")]), "catch")
    ELSE LET entries == JsOr(OptGet(result, "entries"), JArr(<<>>)).items
         IN  Responds(200,
               JObj([rows |-> JArr([i \in 1..Len(entries) |->
                  JObj([k \in {"id", "text", "created_at"} |->
                          OptGet(entries[i], k)])])]),
               "success")

\* POST /entries: (req.body && req.body.text ? String(req.body.text) : "").trim()
createEntryText(b) ==
  IF Truthy(b) /\ Truthy(OptGet(b, "text"))
    THEN JStr(Trim(ToStringChars(OptGet(b, "text"))))
    ELSE JStr(<<>>)

\* The callback of CreateEntry: 400 with the service's message, or the entry.
createEntryCallback(err, entry) ==
  IF Truthy(err)
    THEN Responds(400, JObj([ok |-> JBool(FALSE),
                             error |-> OptGet(err, "message")]), "catch")
    ELSE Responds(200, JObj([ok |-> JBool(TRUE), entry |-> entry]), "success")

\* The characters of a limit query parameter.
LimitChars == {"0", "1", "2", "9", "-", " ", "a"}

\* req.query of GET /entries/all: limit absent, a text, repeated
\* (?limit=7&limit=9) or nested (?limit[a]=1).
LimitQueries ==
  {Body([limit |-> v]) :
     v \in {Undef, JArr(<<JStr(<<"7">>), JStr(<<"9">>)>>),
            JObj([a |-> JStr(<<"1">>)])}
          \cup {JStr(s) : s \in TextsUpTo(LimitChars, MaxLen)}}

EntryBodies ==
  {Undef} \cup
  {Body([text |-> v]) :
     v \in {Undef, JNull, JStr(<<>>), Blank, JStr(<<" ", "a", " ">>), JNum(0),
            JNum(12)}}

EntryRow == JObj([id |-> JNum(1), text |-> TextA, created_at |-> Stamp1])

\* What the entries service calls back with: an error, or a result.
ServiceErrors == {JObj([message |-> Lit("14 UNAVAILABLE: No connection established")])}
ListResults ==
  {EmptyObj, JObj([entries |-> JArr(<<>>)]),
   JObj([entries |-> JArr(<<EntryRow, JObj([id |-> JNum(2)])>>)])}

\* The handler calls the entries service and returns.
CallsService(r, b, method, request) ==
  /\ route' = r
  /\ body' = b
  /\ rpcArgs' = [called |-> TRUE, method |-> method, request |-> request]
  /\ pc' = "awaiting"
  /\ UNCHANGED <<openAiClient, requests, clientVars, llmArgs, llmCalls, llmResult, res, answeredBy,
                 fnVars>>

\* app.get("/entries/all", ...) is called with a request; body is req.query.
GetEntriesAll ==
  /\ pc = "idle"
  /\ \E q \in LimitQueries :
       CallsService("entriesAll", q, "ListEntries",
                    [limit |-> entriesAllLimit(q)])

\* app.post("/entries", ...) is called with a request.
PostEntries ==
  /\ pc = "idle"
  /\ \E b \in EntryBodies :
       CallsService("entries", b, "CreateEntry", [text |-> createEntryText(b)])

\* The entries service calls ListEntries' callback.
ListEntriesCallback ==
  /\ pc = "awaiting" /\ route = "entriesAll"
  /\ \E err \in ServiceErrors \cup {JNull}, result \in ListResults :
       Send(listEntriesCallback(err, IF Truthy(err) THEN Undef ELSE result))
  /\ pc' = "done"
  /\ UNCHANGED <<openAiClient, requests, clientVars, route, body, llmArgs, llmCalls, llmResult,
                 rpcArgs, fnVars>>

\* The entries service calls CreateEntry's callback.
CreateEntryCallback ==
  /\ pc = "awaiting" /\ route = "entries"
  /\ \E err \in ServiceErrors \cup {JNull} :
       Send(createEntryCallback(err,
              IF Truthy(err) THEN Undef
              ELSE JObj([id |-> JNum(1), text |-> rpcArgs.request.text])))
  /\ pc' = "done"
  /\ UNCHANGED <<openAiClient, requests, clientVars, route, body, llmArgs, llmCalls, llmResult,
                 rpcArgs, fnVars>>

NextEntries ==
  \/ GetEntriesAll
  \/ PostEntries
  \/ ListEntriesCallback
  \/ CreateEntryCallback
  \/ NextRequest

SpecEntries == Init /\ [][NextEntries]_vars

\* All eleven handlers of the gateway, one request at a time.
NextGateway ==
  \/ Next
  \/ NextEntries

SpecGateway == Init /\ [][NextGateway]_vars


\* ------------------------------------------------ requests in flight together
\* Express runs the handler registered for the route, up to its first await
\* or its call of the entries service.
handlerBegin(r, b) ==
  CASE r = "insights" -> insightsBegin(b)
    [] r = "prompt" -> promptBegin(b)
    [] r = "summary" -> summaryBegin(b)
    [] r = "goals" -> goalsBegin(b)
    [] r = "anomaly" -> anomalyBegin(b)
    [] r = "pattern" -> patternBegin(b)
    [] r = "transcript" -> transcriptBegin(b)
    [] r = "partner" -> partnerBegin(b)
    [] r = "chat" -> chatBegin(b)
    [] OTHER -> [kind |-> "call", status |-> 0, body |-> Undef, by |-> "none",
                 args |-> [called |-> TRUE, method |-> "ListEntries",
                           request |-> [limit |-> entriesAllLimit(b)]]]

\* The requests that arrive while others are in flight: one of each kind of
\* answer (guard or call, validation, throw) and of the entries facade.
ConcurrentRequests ==
  { [route |-> "insights", body |-> Body([stats |-> StatsObj])],
    [route |-> "prompt", body |-> Undef],
    [route |-> "goals", body |-> EmptyObj],
    [route |-> "goals", body |-> Body([goals |-> JArr(<<TextA>>)])],
    [route |-> "chat", body |-> Body([conversation |-> JArr(<<UserMsg>>)])],
    [route |-> "chat", body |-> Body([conversation |-> JArr(<<JNull>>)])],
    [route |-> "entriesAll", body |-> Body([limit |-> JStr(<<"9">>)])] }

ConcurrentResponses ==
  [content : {Undef, TextA, JStr(<<"{", "\"reflections\"", ":", "[", "\"x\"", "]", "}">>)},
   usage : {Undef}]

ConcurrentErrors ==
  {JObj([status |-> JNum(429), message |-> Lit("Rate limit reached")])}

\* What res.send leaves in the response of a request.
Sent(out) == [sent |-> 1, status |-> out.status, body |-> out.body]

\* A request arrives and its handler runs to its first await, its return or
\* its throw, whatever the other requests are doing.
RequestArrives ==
  \E i \in Slots, q \in ConcurrentRequests :
    /\ requests[i].pc = "idle"
    /\ LET out == handlerBegin(q.route, q.body)
       IN  requests' = [requests EXCEPT ![i] =
             [pc |-> CASE out.kind = "respond" -> "done"
                       [] out.kind = "call" -> "awaiting"
                       [] OTHER -> "threw",
              route |-> q.route, body |-> q.body,
              configured |-> openAiClient,
              result |-> NoResult,
              res |-> IF out.kind = "respond" THEN Sent(out) ELSE NoResponse]]
    /\ UNCHANGED <<openAiClient, handlerVars, fnVars, clientVars>>

\* The LLM call of one suspended request resolves; its handler continues.
UpstreamResolves ==
  \E i \in Slots, response \in ConcurrentResponses :
    /\ requests[i].pc = "awaiting" /\ requests[i].route /= "entriesAll"
    /\ requests' = [requests EXCEPT
         ![i].pc = "done",
         ![i].result = [kind |-> "resolved", response |-> response],
         ![i].res = Sent(handlerEnd(requests[i].route, response))]
    /\ UNCHANGED <<openAiClient, handlerVars, fnVars, clientVars>>

\* The LLM call of one suspended request rejects; its catch block runs.
UpstreamRejects ==
  \E i \in Slots, err \in ConcurrentErrors :
    /\ requests[i].pc = "awaiting" /\ requests[i].route /= "entriesAll"
    /\ requests' = [requests EXCEPT
         ![i].pc = "done",
         ![i].result = [kind |-> "rejected", err |-> err],
         ![i].res = Sent(catchBlock(err, catchFallback(requests[i].route)))]
    /\ UNCHANGED <<openAiClient, handlerVars, fnVars, clientVars>>

\* The entries service calls back one suspended request.
ServiceCallsBack ==
  \E i \in Slots, err \in ServiceErrors \cup {JNull}, result \in ListResults :
    /\ requests[i].pc = "awaiting" /\ requests[i].route = "entriesAll"
    /\ LET r == IF Truthy(err) THEN Undef ELSE result
       IN  requests' = [requests EXCEPT
             ![i].pc = "done",
             ![i].result = [kind |-> "called back", err |-> err, result |-> r],
             ![i].res = Sent(listEntriesCallback(err, r))]
    /\ UNCHANGED <<openAiClient, handlerVars, fnVars, clientVars>>

\* The exception that left an async handler is an unhandled promise
\* rejection.  Nothing in the source handles it; where the runtime ends the
\* process on it, every request suspended at its upstream call is dropped.
\* Where the runtime contains it, this step is not taken.
ProcessExits ==
  /\ \E i \in Slots : requests[i].pc = "threw"
  /\ \E j \in Slots : requests[j].pc = "awaiting"
  /\ requests' = [j \in Slots |->
       IF requests[j].pc = "awaiting"
         THEN [requests[j] EXCEPT !.pc = "dropped"]
         ELSE requests[j]]
  /\ UNCHANGED <<openAiClient, handlerVars, fnVars, clientVars>>

\* A request that is over leaves.
RequestLeaves ==
  \E i \in Slots :
    /\ requests[i].pc \in {"done", "threw", "dropped"}
    /\ requests' = [requests EXCEPT ![i] = IdleRequest]
    /\ UNCHANGED <<openAiClient, handlerVars, fnVars, clientVars>>

NextConcurrent ==
  \/ RequestArrives
  \/ UpstreamResolves
  \/ UpstreamRejects
  \/ ServiceCallsBack
  \/ ProcessExits
  \/ RequestLeaves

SpecConcurrent == Init /\ [][NextConcurrent]_vars


\* ------------------------------------------------- the client's entry list
\* The options of the entry limit select.
EntryLimitOptions == {10, 25, 50, 100}

\* response.data.rows of a list response: rows, or not an array.
ResponseRows ==
  {Undef, JArr(<<>>), JArr(<<EntryRow>>),
   JArr(<<JObj([id |-> JNum(2), text |-> JStr(<<"b">>)]), EntryRow>>)}

\* getEntries up to its await: setEntriesLoading(true), setEntriesError(null)
\* and axios.get with the entryLimit of the closure.
getEntries(limit) ==
  /\ Len(getEntriesCalls) < MaxGetEntries
  /\ entriesLoading' = TRUE
  /\ entriesError' = JNull
  /\ getEntriesCalls' =
       Append(getEntriesCalls,
              [limit |-> limit, status |-> "pending", data |-> Undef])

\* useEffect(() => { getEntries(); }, [getEntries]) on mount.
Mount ==
  /\ ~mounted
  /\ mounted' = TRUE
  /\ getEntries(entryLimit)
  /\ UNCHANGED <<openAiClient, handlerVars, fnVars, requests, entryLimit,
                 clientEntries>>

\* The select's onChange sets entryLimit; getEntries is a new callback and
\* the effect calls it.
ChangeEntryLimit ==
  /\ mounted
  /\ \E l \in EntryLimitOptions \ {entryLimit} :
       /\ entryLimit' = l
       /\ getEntries(l)
  /\ UNCHANGED <<openAiClient, handlerVars, fnVars, requests, mounted,
                 clientEntries>>

\* The Refresh button (disabled while entriesLoading) calls getEntries.
PressRefresh ==
  /\ mounted /\ ~entriesLoading
  /\ getEntries(entryLimit)
  /\ UNCHANGED <<openAiClient, handlerVars, fnVars, requests, mounted,
                 entryLimit, clientEntries>>

\* A pending axios.get resolves: setEntries(rows), then the finally block.
ListResponseArrives ==
  /\ \E i \in DOMAIN getEntriesCalls, rows \in ResponseRows :
       /\ getEntriesCalls[i].status = "pending"
       /\ getEntriesCalls' = [getEntriesCalls EXCEPT
            ![i] = [@ EXCEPT !.status = "resolved", !.data = rows]]
       /\ clientEntries' = IF IsArray(rows) THEN rows ELSE JArr(<<>>)
  /\ entriesLoading' = FALSE
  /\ UNCHANGED <<openAiClient, handlerVars, fnVars, requests, mounted,
                 entryLimit, entriesError>>

\* A pending axios.get rejects: the catch block, then the finally block.
ListRequestFails ==
  /\ \E i \in DOMAIN getEntriesCalls :
       /\ getEntriesCalls[i].status = "pending"
       /\ getEntriesCalls' = [getEntriesCalls EXCEPT ![i].status = "rejected"]
  /\ entriesError' = Lit("Could not load entries. Please try again.")
  /\ entriesLoading' = FALSE
  /\ UNCHANGED <<openAiClient, handlerVars, fnVars, requests, mounted,
                 entryLimit, clientEntries>>

NextClient ==
  \/ Mount
  \/ ChangeEntryLimit
  \/ PressRefresh
  \/ ListResponseArrives
  \/ ListRequestFails

SpecClient == Init /\ [][NextClient]_vars


\* ------------------------------------- the pure functions, applied to inputs
Chars == {"a", " ", "\n"}

\* n characters "a"
Pad(n) == [i \in 1..n |-> "a"]

\* A text one character longer than cap whose cap-th character is a space.
SpaceAt(cap) == JStr(Pad(cap - 1) \o <<" ", "b">>)

SanitizeInputs ==
  {Undef, JNull, JNum(0), JNum(120), JBool(TRUE), EmptyObj,
   JArr(<<JNum(1), JNull>>)}
  \cup {JStr(t) : t \in TextsUpTo(Chars, MaxLen)}

\* Elements of a client-supplied collection: null, primitives, records with
\* and without each field, with texts shorter and longer than the caps.
NormalizerItems ==
  {JNull, JNum(3), TextA, EmptyObj,
   JObj([text |-> TextA]),
   JObj([text |-> JStr(<<" ", "a", " ">>), created_at |-> Stamp1]),
   JObj([text |-> JNum(12), createdAt |-> Stamp2, id |-> JNum(1)]),
   JObj([text |-> SpaceAt(EntryTextMax), created_at |-> Stamp1,
         createdAt |-> Stamp2]),
   JObj([text |-> JStr(Pad(EntryTextMax + 1)), mood |-> JNull]),
   JObj([mood |-> TextA, note |-> JStr(<<"b", " ">>), created_at |-> Stamp1]),
   JObj([mood |-> SpaceAt(MoodMax), note |-> JStr(Pad(MoodNoteMax + 1)),
         createdAt |-> Stamp2]),
   JObj([mood |-> JNum(0), note |-> SpaceAt(MoodNoteMax)])}

NormalizerInputs ==
  {Undef, JNull, TextA, EmptyObj}
  \cup {JArr(t) : t \in TextsUpTo(NormalizerItems, MaxItems)}

Applied(f, arg, limit, out, again) ==
  /\ fn' = f /\ fnArg' = arg /\ fnLimit' = limit /\ fnFallback' = Undef
  /\ fnOut' = out /\ fnAgain' = again
  /\ UNCHANGED <<openAiClient, requests, clientVars, handlerVars>>

ApplySanitize ==
  /\ FnIdle
  /\ \E v \in SanitizeInputs, n \in 0..MaxBound :
       Applied("sanitize", v, n, sanitize(v, n),
               sanitize(sanitize(v, n), n))

ApplyClipCollection ==
  /\ FnIdle
  /\ \E a \in NormalizerInputs, n \in 0..MaxBound :
       Applied("clipCollection", a, n, clipCollection(a, n),
               clipCollection(clipCollection(a, n), n))

ApplyNormalizeEntries ==
  /\ FnIdle
  /\ \E a \in NormalizerInputs, n \in 0..MaxBound :
       Applied("normalizeEntries", a, n, normalizeEntries(a, n),
               normalizeEntries(normalizeEntries(a, n), n))

ApplyNormalizeMoods ==
  /\ FnIdle
  /\ \E a \in NormalizerInputs, n \in 0..MaxBound :
       Applied("normalizeMoods", a, n, normalizeMoods(a, n),
               normalizeMoods(normalizeMoods(a, n), n))

\* The fallbacks handed to safeJsonParse: the default {} and others.
Fallbacks == {EmptyObj, JNull, JArr(<<>>), Lit("fallback")}

ApplySafeJsonParse ==
  /\ FnIdle
  /\ \E t \in ReplyTexts, f \in Fallbacks :
       /\ fn' = "safeJsonParse" /\ fnArg' = JStr(t) /\ fnFallback' = f
       /\ fnOut' = safeJsonParse(JStr(t), f)
       /\ fnLimit' = 0 /\ fnAgain' = Undef
       /\ UNCHANGED <<openAiClient, requests, clientVars, handlerVars>>

FnReturn ==
  /\ fn /= "none"
  /\ fn' = "none" /\ fnArg' = Undef /\ fnLimit' = 0 /\ fnFallback' = Undef
  /\ fnOut' = Undef /\ fnAgain' = Undef
  /\ UNCHANGED <<openAiClient, requests, clientVars, handlerVars>>

InitFn ==
  /\ openAiClient = TRUE
  /\ HandlerIdle
  /\ FnIdle
  /\ requests = NoRequests
  /\ ClientInit

NextFn ==
  \/ ApplySanitize
  \/ ApplyClipCollection
  \/ ApplyNormalizeEntries
  \/ ApplyNormalizeMoods
  \/ ApplySafeJsonParse
  \/ FnReturn

SpecFn == InitFn /\ [][NextFn]_vars


\* =================================================================== claims
\* The error string of the response body, Undef when it has none.
ResponseError == OptGet(res.body, "error")

\* A text input is given: it is not null or absent and its string form has
\* a character that is not whitespace.
HasText(v) == ~IsNullish(v) /\ Trim(ToStringChars(v)) /= <<>>

\* A collection input is given: a sequence with at least one element.
HasElements(v) == IsArray(v) /\ Len(v.items) > 0

\* The body b lacks the input that route r requires (the table of the
\* operations: insights needs an entry, a mood or stats; summary entries,
\* moods or stats; goals a goal; anomaly entries or moods; pattern an entry;
\* transcript a note text; partner insights or a summary).
LacksRequiredInput(r, b) ==
  CASE r = "insights" ->
         /\ ~HasText(OptGet(b, "entry"))
         /\ ~Truthy(OptGet(b, "mood"))
         /\ ~Truthy(OptGet(b, "stats"))
    [] r = "summary" ->
         /\ ~HasElements(OptGet(b, "entries"))
         /\ ~HasElements(OptGet(b, "moods"))
         /\ ~Truthy(OptGet(b, "stats"))
    [] r = "goals" ->
         LET g == OptGet(b, "goals")
         IN  ~(IsArray(g) /\ \E i \in 1..Min(Len(g.items), 10) :
                               HasText(g.items[i]))
    [] r = "anomaly" ->
         /\ ~HasElements(OptGet(b, "entries"))
         /\ ~HasElements(OptGet(b, "moods"))
    [] r = "pattern" -> ~HasElements(OptGet(b, "entries"))
    [] r = "transcript" ->
         /\ ~HasText(OptGet(b, "voice_note"))
         /\ ~HasText(OptGet(b, "voice_note_text"))
         /\ ~HasText(OptGet(b, "note"))
    [] r = "partner" ->
         /\ ~Truthy(OptGet(b, "insights"))
         /\ ~Truthy(OptGet(b, "summary"))
    [] OTHER -> FALSE

\* C1: when the LLM capability is not configured, every request to an AI
\* route, whatever its body, is answered once with status 503 and the body
\* {ok: false, error: "OPENAI_API_KEY is not configured on the API gateway"};
\* no validation answer, no LLM call and no exception comes before it.
C1_UnconfiguredAnswers503 ==
  (~openAiClient /\ pc /= "idle") =>
    /\ pc = "done"
    /\ res = [sent |-> 1, status |-> 503,
              body |-> JObj([ok |-> JBool(FALSE),
                error |-> Lit("OPENAI_API_KEY is not configured on the API gateway")])]
    /\ llmCalls = 0

\* C1's case: unconfigured, a goals request whose body has no goal is
\* answered 503 (and not 400).
C1_Witness ==
  /\ ~openAiClient /\ pc = "done" /\ route = "goals"
  /\ LacksRequiredInput(route, body)
  /\ res.status = 503

C3_CallCount ==
  (pc \in {"done", "threw"}) =>
    llmCalls = (IF answeredBy \in {"guard", "validation"} THEN 0 ELSE 1)

\* C4: every AI request ends with one JSON response, the success envelope or
\* a body with an error string; no exception leaves the handler.
C4_AlwaysResponds ==
  /\ pc /= "threw"
  /\ (pc = "done") =>
       /\ res.sent = 1
       /\ res.body.t = "obj"
       /\ (answeredBy = "success" \/ ResponseError.t = "str")

\* The status and message C5 expects for a failure err of route r.
ExpectedFailureStatus(err) ==
  IF OptGet(err, "status").t = "num" THEN OptGet(err, "status").n
  ELSE IF OptGet(err, "statusCode").t = "num" THEN OptGet(err, "statusCode").n
  ELSE 502

ExpectedFailureMessage(err, r) ==
  IF OptGet(err, "message").t = "str" /\ OptGet(err, "message").s /= <<>>
    THEN OptGet(err, "message")
    ELSE Lit(catchFallback(r))

\* C5: when the LLM call fails, the response status is the failure's status
\* if numeric, else its statusCode if numeric, else 502, and the error is
\* the failure's message, or the route's fallback when it has none.
C5_UpstreamFailureMapping ==
  (pc = "done" /\ llmResult.kind = "rejected") =>
    /\ res.sent = 1
    /\ res.status = ExpectedFailureStatus(llmResult.err)
    /\ res.body = JObj([error |->
                     ExpectedFailureMessage(llmResult.err, route)])

\* C5's case: a failure with both status and statusCode and no message.
C5_Witness ==
  /\ pc = "done" /\ llmResult.kind = "rejected"
  /\ llmResult.err = JObj([status |-> JNum(429), statusCode |-> JNum(503)])
  /\ res.status = 429
  /\ ResponseError = Lit(catchFallback(route))

\* The reply text of a resolved LLM call is not valid JSON.
ReplyIsInvalidJson ==
  /\ llmResult.kind = "resolved"
  /\ llmResult.response.content.t = "str"
  /\ ~JsonParse(llmResult.response.content.s).ok

\* C6: when the LLM call succeeds with a reply that is not valid JSON, the
\* JSON-mode invoker's json is {} and the JSON-mode route answers 200.
C6_InvalidReplyIsEmptyObject ==
  (pc = "done" /\ route \in JsonRoutes /\ ReplyIsInvalidJson) =>
    /\ llmResult.json = EmptyObj
    /\ answeredBy = "success"
    /\ res.sent = 1 /\ res.status = 200

\* C6's case: the reply {"x"} (not JSON) to a goals request.
C6_Witness ==
  /\ pc = "done" /\ route = "goals" /\ ReplyIsInvalidJson
  /\ llmResult.response.content.s = <<"{", "\"x\"", "}">>
  /\ res.status = 200
  /\ OptGet(res.body, "reflections") = JArr(<<>>)

\* C7: for every reply of a resolved LLM call, the json of the JSON-mode
\* invoker's result is an object.
C7_JsonIsObject ==
  (pc = "done" /\ route \in JsonRoutes /\ llmResult.kind = "resolved") =>
    llmResult.json.t = "obj"


\* A text has no leading and no trailing whitespace.
IsTrimmed(s) ==
  s = <<>> \/ (Head(s) \notin Whitespace /\ s[Len(s)] \notin Whitespace)

\* C8: sanitize(s, n) has at most n characters and no leading or trailing
\* whitespace, and is the empty string for null or absent input.
C8_SanitizeBoundedAndTrimmed ==
  (fn = "sanitize") =>
    /\ fnOut.t = "str"
    /\ Len(fnOut.s) <= fnLimit
    /\ IsTrimmed(fnOut.s)
    /\ IsNullish(fnArg) => fnOut.s = <<>>

\* C9: a normalizer applied to its own output, with the same limit, returns
\* that output.
C9_NormalizersIdempotent ==
  (fn \in {"normalizeEntries", "normalizeMoods"}) => fnAgain = fnOut

\* The fields of a record are strings of at most the given lengths, and the
\* record has these fields and created_at and no other.
HasShape(v, caps) ==
  /\ v.t = "obj"
  /\ DOMAIN v.fields = DOMAIN caps \cup {"created_at"}
  /\ \A k \in DOMAIN caps :
       v.fields[k].t = "str" /\ Len(v.fields[k].s) <= caps[k]

\* C10: the output of a normalizer has at most limit elements, its i-th
\* element is the normalized i-th input element, every element has exactly
\* the target shape with text (mood, note) a string within its cap, and a
\* non-sequence input yields the empty sequence.
C10_NormalizerOutput ==
  (fn \in {"normalizeEntries", "normalizeMoods"}) =>
    /\ fnOut.t = "arr"
    /\ Len(fnOut.items) <= fnLimit
    /\ ~IsArray(fnArg) => fnOut.items = <<>>
    /\ IsArray(fnArg) =>
         /\ Len(fnOut.items) <= Len(fnArg.items)
         /\ \A i \in 1..Len(fnOut.items) :
              fnOut.items[i] = IF fn = "normalizeEntries"
                                 THEN normalizeEntry(fnArg.items[i])
                                 ELSE normalizeMood(fnArg.items[i])
    /\ \A i \in 1..Len(fnOut.items) :
         IF fn = "normalizeEntries"
           THEN HasShape(fnOut.items[i], [text |-> 500])
           ELSE HasShape(fnOut.items[i], [mood |-> 50, note |-> 240])

\* C10's case: two records, the first with a text longer than 500
\* characters, and limit 1: one record is kept and its text has 500.
C10_Witness ==
  /\ fn = "normalizeEntries" /\ fnLimit = 1
  /\ IsArray(fnArg) /\ Len(fnArg.items) = 2
  /\ fnArg.items[2] = JNull
  /\ OptGet(fnArg.items[1], "text").t = "str"
  /\ Len(OptGet(fnArg.items[1], "text").s) > 500
  /\ Len(fnOut.items) = 1
  /\ Len(fnOut.items[1].fields.text.s) = 500


\* The timestamp C11 expects for a record: its created_at when present,
\* otherwise its createdAt when present, otherwise null.
ExpectedTimestamp(item) ==
  IF ~IsNullish(OptGet(item, "created_at")) THEN OptGet(item, "created_at")
  ELSE IF ~IsNullish(OptGet(item, "createdAt")) THEN OptGet(item, "createdAt")
  ELSE JNull

\* C11: for both normalizers, the created_at of every normalized record is
\* the input record's created_at when present, otherwise its createdAt when
\* present, otherwise null.
C11_TimestampAlias ==
  (fn \in {"normalizeEntries", "normalizeMoods"} /\ IsArray(fnArg)) =>
    \A i \in 1..Len(fnOut.items) :
      OptGet(fnOut.items[i], "created_at") = ExpectedTimestamp(fnArg.items[i])


\* C12: clipCollection(xs, n) of a sequence xs is the prefix of xs of its own
\* length, in the original order, and that length is at most min(len(xs), n);
\* of an input that is not a sequence it is the empty sequence.
C12_ClipIsBoundedPrefix ==
  (fn = "clipCollection") =>
    /\ fnOut.t = "arr"
    /\ IsArray(fnArg) =>
         /\ Len(fnOut.items) <= Min(Len(fnArg.items), fnLimit)
         /\ fnOut.items = SubSeq(fnArg.items, 1, Len(fnOut.items))
    /\ ~IsArray(fnArg) => fnOut.items = <<>>

\* C12's case: a sequence of two different elements clipped to one keeps
\* the first.
C12_Witness ==
  /\ fn = "clipCollection" /\ fnLimit = 1
  /\ IsArray(fnArg) /\ Len(fnArg.items) = 2
  /\ fnArg.items[1] /= fnArg.items[2]
  /\ fnOut.items = <<fnArg.items[1]>>


\* C13: safeJsonParse(t, f) of a text t is the value JSON.parse gives when t
\* is valid JSON and the fallback f otherwise; it always returns a value.
C13_SafeJsonParse ==
  (fn = "safeJsonParse") =>
    /\ fnOut /= Undef
    /\ fnOut = IF JsonParse(fnArg.s).ok THEN JsonParse(fnArg.s).v
               ELSE fnFallback

\* C13's case: the valid text [1,null] with fallback {} gives the array.
C13_Witness ==
  /\ fn = "safeJsonParse" /\ fnFallback = EmptyObj
  /\ fnArg = JStr(<<"[", "1", ",", "null", "]">>)
  /\ fnOut = JArr(<<JNum(1), JNull>>)

\* C13's other case: the invalid text {"x":1,} gives the fallback.
C13_WitnessFallback ==
  /\ fn = "safeJsonParse" /\ fnFallback = JNull
  /\ fnArg = JStr(<<"{", "\"x\"", ":", "1", ",", "}">>)
  /\ fnOut = JNull


\* The free-text fields of the output shape of route r (the table of the
\* operations), inside the envelope's object.
FreeTextFields(r) ==
  CASE r = "insights" -> {"primary_emotion", "summary", "reflection",
                          "action_item", "partner_share"}
    [] r = "summary" -> {"overview", "focus_theme", "encouragement"}
    [] r = "anomaly" -> {"recommendation"}
    [] r = "transcript" -> {"transcript", "action_item"}
    [] r = "partner" -> {"message"}
    [] OTHER -> {}

\* C14: in every 200 response of an AI route, every free-text field of the
\* route's output shape is present and is a non-empty string.
C14_FreeTextFieldsPresent ==
  (pc = "done" /\ res.status = 200) =>
    \A k \in FreeTextFields(route) :
      LET v == OptGet(OptGet(res.body, envelopeKey(route)), k)
      IN  v.t = "str" /\ v.s /= <<>>


\* The text C15 expects for a content: the default when the content is
\* absent, empty or only whitespace, otherwise the content without its
\* leading and trailing whitespace.
ExpectedText(content, default) ==
  IF content.t /= "str" \/ \A i \in 1..Len(content.s) : content.s[i] \in Whitespace
    THEN Lit(default)
    ELSE JStr(Trim(content.s))

\* C15: when the LLM call of a prompt or chat request succeeds, the answer is
\* 200 and its prompt (reply) is a non-empty string: the route's default
\* when the content is absent, empty or blank, else the trimmed content.
C15_PromptAndReplyNonEmpty ==
  (pc = "done" /\ route \in {"prompt", "chat"}
     /\ llmResult.kind = "resolved") =>
    LET field == OptGet(res.body, IF route = "prompt" THEN "prompt" ELSE "reply")
        default == IF route = "prompt"
                     THEN "Take a mindful breath and describe one highlight from today."
                     ELSE "Take a calming breath and notice one thing you appreciate in this moment."
    IN  /\ res.sent = 1 /\ res.status = 200
        /\ field.t = "str" /\ field.s /= <<>>
        /\ field = ExpectedText(llmResult.response.content, default)

\* C15's case: a prompt request with the empty body whose reply is blank
\* gets the default prompt.
C15_Witness ==
  /\ pc = "done" /\ route = "prompt" /\ body = EmptyObj
  /\ llmResult.kind = "resolved"
  /\ llmResult.response.content = Blank
  /\ OptGet(res.body, "prompt")
       = Lit("Take a mindful breath and describe one highlight from today.")


\* The client-supplied conversation of a chat body, as the handler reads it.
HistoryOf(b) ==
  IF IsArray(OptGet(b, "conversation")) THEN OptGet(b, "conversation").items
  ELSE <<>>

\* A message content is not empty.  The JSON text of a payload object has at
\* least its two braces.
ContentNonEmpty(c) == IF "json" \in DOMAIN c THEN TRUE ELSE c.s /= <<>>

\* Message m of the list is the forwarded form of the client's message msg.
ForwardedFrom(m, msg) ==
  /\ m.role = (IF OptGet(msg, "role") = Lit("assistant")
                 THEN "assistant" ELSE "user")
  /\ m.content = sanitize(JsOr(JsOr(OptGet(msg, "content"),
                                    OptGet(msg, "text")), JStr(<<>>)), 1200)

\* The messages ms are forwarded forms of messages of history, in history's
\* order (each message is matched with the earliest one it can be).
RECURSIVE ForwardedInOrder(_, _)
ForwardedInOrder(ms, history) ==
  IF ms = <<>> THEN TRUE
  ELSE IF history = <<>> THEN FALSE
  ELSE IF ForwardedFrom(Head(ms), Head(history))
    THEN ForwardedInOrder(Tail(ms), Tail(history))
    ELSE ForwardedInOrder(ms, Tail(history))

\* C16: in every message list sent to the LLM the first message is the only
\* system message, every other has role user or assistant and a non-empty
\* content, and the messages a chat request forwards from a non-empty
\* conversation are in the conversation's order.
C16_MessageListShape ==
  llmArgs.called =>
    LET ms == llmArgs.messages
        history == HistoryOf(body)
    IN  /\ Len(ms) >= 1
        /\ ms[1].role = "system"
        /\ \A i \in 2..Len(ms) :
             /\ ms[i].role \in {"user", "assistant"}
             /\ ContentNonEmpty(ms[i].content)
        /\ (route = "chat" /\ history /= <<>>) =>
             ForwardedInOrder(Tail(ms), history)

\* C16's case: a conversation of an assistant message and then a user
\* message is forwarded after the system message in that order.
C16_Witness ==
  /\ llmArgs.called /\ route = "chat"
  /\ HistoryOf(body) = <<AssistantMsg, UserMsg>>
  /\ Len(llmArgs.messages) = 3
  /\ llmArgs.messages[2] = [role |-> "assistant", content |-> JStr(<<"b">>)]
  /\ llmArgs.messages[3] = [role |-> "user", content |-> TextA]


\* A message of the client's conversation is usable: the handler forwards it
\* (its content, or else its text, has a character that is not whitespace).
Usable(msg) ==
  Truthy(sanitize(JsOr(JsOr(OptGet(msg, "content"), OptGet(msg, "text")),
                       JStr(<<>>)), 1200))

\* The opener C17 expects for body b.
ExpectedOpener(b) ==
  LET topic == IF HasText(OptGet(b, "topic"))
                 THEN Trim(ToStringChars(OptGet(b, "topic")))
                 ELSE <<"overall wellbeing">>
  IN  [role |-> "user",
       content |-> JStr(<<"I'd like to talk about ">> \o topic \o <<".">>)]

\* C17: the message list a chat request sends to the LLM has at least one
\* non-system message, and when no message of the conversation is usable
\* that message is the topic-seeded opener.
C17_ChatAlwaysHasUserMessage ==
  (route = "chat" /\ llmArgs.called) =>
    /\ Len(llmArgs.messages) >= 2
    /\ (\A i \in 1..Len(HistoryOf(body)) : ~Usable(HistoryOf(body)[i])) =>
         llmArgs.messages = <<llmArgs.messages[1], ExpectedOpener(body)>>


\* The strings and the sequences inside a value (a message content, a
\* payload object, its records).
RECURSIVE TextsWithin(_)
TextsWithin(v) ==
  CASE v.t = "str" -> IF "json" \in DOMAIN v THEN TextsWithin(v.json) ELSE {v}
    [] v.t = "arr" -> UNION {TextsWithin(v.items[i]) : i \in DOMAIN v.items}
    [] v.t = "obj" -> UNION {TextsWithin(v.fields[k]) : k \in DOMAIN v.fields}
    [] OTHER -> {}

RECURSIVE CollectionsWithin(_)
CollectionsWithin(v) ==
  CASE v.t = "str" ->
         IF "json" \in DOMAIN v THEN CollectionsWithin(v.json) ELSE {}
    [] v.t = "arr" ->
         {v} \cup UNION {CollectionsWithin(v.items[i]) : i \in DOMAIN v.items}
    [] v.t = "obj" ->
         UNION {CollectionsWithin(v.fields[k]) : k \in DOMAIN v.fields}
    [] OTHER -> {}

\* C18: in every message list sent to the LLM, every collection forwarded
\* from the body (entries, moods, goals, the chat history) has at most the
\* largest clip limit of the handlers, and every text at most the largest cap.
C18_ForwardedInputsBounded ==
  llmArgs.called =>
    /\ Len(llmArgs.messages) - 1 <= LargestClipLimit
    /\ \A i \in 2..Len(llmArgs.messages) :
         /\ \A c \in CollectionsWithin(llmArgs.messages[i].content) :
              Len(c.items) <= LargestClipLimit
         /\ \A x \in TextsWithin(llmArgs.messages[i].content) :
              Len(x.s) <= LargestTextCap


\* The text of a limit parameter starts, after leading whitespace and an
\* optional sign, with a decimal digit.
ParsesToNumber(v) ==
  /\ v.t = "str"
  /\ LET s == TrimStart(v.s)
         u == IF s /= <<>> /\ Head(s) \in {"-", "+"} THEN Tail(s) ELSE s
     IN  u /= <<>> /\ Head(u) \in {"0", "1", "2", "3", "4", "5", "6", "7", "8", "9"}

\* C19: the limit GET /entries/all passes to ListEntries is at most 200, and
\* is 50 when the limit parameter is absent or does not parse to a number.
C19_ListLimit ==
  (route = "entriesAll" /\ rpcArgs.called) =>
    /\ rpcArgs.method = "ListEntries"
    /\ rpcArgs.request.limit <= 200
    /\ (OptGet(body, "limit") = Undef
          \/ (OptGet(body, "limit").t = "str"
                /\ ~ParsesToNumber(OptGet(body, "limit")))) =>
         rpcArgs.request.limit = 50

\* C19's case: limit=999 is capped to 200.
C19_Witness ==
  /\ route = "entriesAll" /\ rpcArgs.called
  /\ OptGet(body, "limit") = JStr(<<"9", "9", "9">>)
  /\ rpcArgs.request.limit = 200

\* C19's other cases: no limit, and limit=a1, give 50.
C19_WitnessDefault ==
  /\ route = "entriesAll" /\ rpcArgs.called
  /\ OptGet(body, "limit") = JStr(<<"a", "1">>)
  /\ rpcArgs.request.limit = 50


\* The response a request gets from its own route and body, the startup
\* configuration and the outcome of its own upstream call.
OwnResponse(q) ==
  LET out == handlerBegin(q.route, q.body)
  IN  CASE out.kind = "respond" -> Sent(out)
        [] q.result.kind = "resolved" ->
             Sent(handlerEnd(q.route, q.result.response))
        [] q.result.kind = "rejected" ->
             Sent(catchBlock(q.result.err, catchFallback(q.route)))
        [] q.result.kind = "called back" ->
             Sent(listEntriesCallback(q.result.err, q.result.result))
        [] OTHER -> NoResponse

\* C20: whatever else is in flight, a request suspended at its upstream call
\* stays suspended until its own call completes, a finished request has the
\* response its own body, the configuration and its own upstream outcome
\* give, and every request saw the LLM-configured flag as it is now.
C20_RequestsIndependent ==
  \A i \in Slots :
    LET q == requests[i]
    IN  q.pc /= "idle" =>
          /\ q.configured = openAiClient
          /\ q.pc \in {"awaiting", "done", "threw"}
          /\ q.pc = "awaiting" => q.res = NoResponse
          /\ q.pc = "done" => q.res = OwnResponse(q)


C21_WitnessCatch ==
  /\ route = "insights" /\ pc = "done" /\ llmResult.kind = "rejected"
  /\ answeredBy = "catch" /\ res.sent = 1


\* A list request of the client is still in flight.
ListRequestInFlight ==
  \E i \in DOMAIN getEntriesCalls : getEntriesCalls[i].status = "pending"

\* C22: entriesLoading is true whenever a list request is in flight, and
\* once all have completed the displayed entries are the rows returned for
\* the most recently issued request.
C22_LatestRequestWins ==
  /\ ListRequestInFlight => entriesLoading
  /\ (getEntriesCalls /= <<>> /\ ~ListRequestInFlight) =>
       LET last == getEntriesCalls[Len(getEntriesCalls)]
       IN  last.status = "resolved" =>
             clientEntries = (IF IsArray(last.data) THEN last.data ELSE JArr(<<>>))

=============================================================================
